---- MODULE Spec2Model ----
(***************************************************************************)
(* Synchronization and membership layer of OnlyMonkes: the profile cache   *)
(* (lib/userProfile), the reaction aggregator and history load (lib/xmtp,  *)
(* hooks/useXmtp), the chat store reconciler (store/chatStore), the send   *)
(* path (screens/ChatScreen) and the membership workflow (hooks/useXmtp,   *)
(* lib/remoteConfig).                                                      *)
(***************************************************************************)
EXTENDS Integers, Sequences, FiniteSets

VARIABLES
  profileCache,   \* _profileCache: inboxId -> CachedProfile
  messages,       \* useChatStore.messages
  histRaw,        \* the raw history group.messages() returned
  histDone,       \* the history load of initialize has run
  log,            \* the conversation's message log on the transport
  sendPc,         \* handleSend: "idle", "sending" (optimistic entry added), "accepted"
  sendCount,      \* handleSend calls so far; the last optimistic id is OptId(sendCount)
  sendTid,        \* send k -> number of the transport id the transport gave it, 0 if none
  syncSnap,       \* syncMessages call -> length of the log it fetched, -1 when not in flight
  inits,          \* initialize run -> [pc, snap]
  subs,           \* stream handlers subscribed on the transport
  pos,            \* stream handler -> index of the next log entry it is handed
  unsubscribeStream, \* _unsubscribeStream: the handler it unsubscribes, 0 for null
  streamAlive,    \* _streamAlive
  isGroupMember,  \* useAppStore.isGroupMember
  groupSet,       \* _group is not null
  sendRun,        \* the initialize run a send awaits (send: if (!_group) await initialize()), 0 if none
  directory,      \* config/app-config.json of the public repository
  members,        \* group id -> inbox ids that are members of the group, {} if not created
  inbox,          \* install -> inbox ids of the JOIN_REQUEST direct messages it received
  dmCount,        \* install -> JOIN_REQUEST direct messages it has sent (counted up to MaxDMs)
  storage,        \* install -> AsyncStorage / SecureStore keys of the membership workflow
  app,            \* install -> useAppStore fields of the membership workflow
  curGroup,       \* install -> _group (NoGroup for null)
  run,            \* install -> initialize run -> position and locals of the run
  approve,        \* install -> group of its detached auto-approve task not yet run, NoGroup if none
  error,          \* useAppStore.error is not null
  warns,          \* console warnings of syncMessages' catch (counted up to MaxWarns)
  codecIn,        \* the message handed to sendMessage / sendReply
  codecOut,       \* what decodeMessage made of the payload sent
  codecDone,      \* the payload has been sent and decoded
  mounted,        \* ChatScreen is mounted (its unmount cleanup, disconnect(), has not run)
  isLoading,      \* useAppStore.isLoading
  isLoadingHistory, \* useChatStore.isLoadingHistory
  persisted,      \* AsyncStorage item profile_cache_v2, parsed: inboxId -> CachedProfile
  persistTimer    \* _persistTimer is pending

histVars == <<histRaw, histDone>>
sendVars == <<sendPc, sendCount, sendTid, sendRun>>
streamVars == <<subs, pos, unsubscribeStream, streamAlive>>
chatVars == <<log, sendVars, syncSnap, inits, streamVars, isGroupMember, groupSet>>
memVars == <<directory, members, inbox, dmCount, storage, app, curGroup, run, approve>>
faultVars == <<error, warns>>
codecVars == <<codecIn, codecOut, codecDone>>
uiVars == <<mounted, isLoading, isLoadingHistory>>
persistVars == <<persisted, persistTimer>>
vars == <<profileCache, messages, histVars, chatVars, memVars, faultVars, codecVars,
          uiVars, persistVars>>

\* ------------------------------------------------------------------------
\* Shared values
\* ------------------------------------------------------------------------

Me == "me"
Senders == {"me", "u1", "u2"}

RECURSIVE SeqToSet(_)
SeqToSet(s) == IF s = <<>> THEN {} ELSE {Head(s)} \cup SeqToSet(Tail(s))

RECURSIVE SeqFilterOut(_, _)
SeqFilterOut(s, x) ==
  IF s = <<>> THEN <<>>
  ELSE IF Head(s) = x THEN SeqFilterOut(Tail(s), x)
       ELSE <<Head(s)>> \o SeqFilterOut(Tail(s), x)

RECURSIVE Reverse(_)
Reverse(s) == IF s = <<>> THEN <<>> ELSE Reverse(Tail(s)) \o <<Head(s)>>

\* ------------------------------------------------------------------------
\* Profile cache (lib/userProfile)
\* ------------------------------------------------------------------------

ProfileIds == {"me", "u1"}
ProfileFields == {"username", "bio", "xAccount", "walletAddress", "tipWallet", "nftImage"}

\* A field of a CachedProfile object: the key is absent, or it is present with
\* the value undefined, null, the empty string, or a non-empty string.
Absent == "absent"
Undef == "undefined"
Null == "null"
Empty == ""
FieldVals == {Absent, Undef, Null, Empty, "v1"}
NonEmpty(v) == v \notin {Absent, Undef, Null, Empty}
Truthy(v) == NonEmpty(v)

NoProfile == [f \in ProfileFields |-> Absent]

\* { ...a, ...b }: every own key of b, also one whose value is undefined,
\* overrides a's.
Spread(a, b) == [f \in ProfileFields |-> IF b[f] # Absent THEN b[f] ELSE a[f]]

cacheProfileNoGuard(old, profile) == Spread(old, profile)

cacheProfile(old, profile) ==
  LET merged == Spread(old, profile)
  IN IF profile["nftImage"] = Null /\ Truthy(old["nftImage"])
     THEN [merged EXCEPT !["nftImage"] = old["nftImage"]]
     ELSE merged

\* JSON.parse(JSON.stringify(obj)) of the cache: a key whose value is
\* undefined is dropped, null and strings are kept.
toJSON(cache) ==
  [i \in DOMAIN cache |->
     [f \in ProfileFields |-> IF cache[i][f] = Undef THEN Absent ELSE cache[i][f]]]

\* A restore that lets the entry in memory win over the persisted one.
loadProfileCacheMemoryWins(cache, blob) ==
  [i \in DOMAIN cache |-> Spread(blob[i], cache[i])]

\* loadProfileCache: _profileCache.set(k, { ..._profileCache.get(k), ...v })
\* for every entry of the persisted object.
loadProfileCache(cache, blob) ==
  [i \in DOMAIN cache |-> Spread(cache[i], blob[i])]

\* x || undefined
OrUndefined(v) == IF Truthy(v) THEN v ELSE Undef
\* x ?? undefined and x ?? null
NullishTo(v, d) == IF v \in {Absent, Undef, Null} THEN d ELSE v

\* The wire object of a PROFILE_UPDATE: sendProfileUpdate writes every key,
\* "" for a value the sender does not have.
WireProfiles == [ProfileFields -> {Empty, "v1"}]

\* The partial the PROFILE_UPDATE handlers pass to cacheProfile.
ProfileUpdatePartial(data) == [f \in ProfileFields |-> OrUndefined(data[f])]

\* The partial initialize and broadcastProfile seed for the own id:
\* { username: username ?? undefined, nftImage: verifiedNft?.image ?? null }.
OwnSeedPartial(username, image) ==
  [f \in ProfileFields |->
     IF f = "username" THEN NullishTo(username, Undef)
     ELSE IF f = "nftImage" THEN NullishTo(image, Null)
     ELSE Absent]

ProfileInit == profileCache = [i \in ProfileIds |-> NoProfile]

\* Live or history PROFILE_UPDATE from sender i.
ProfileUpdate ==
  \E i \in ProfileIds, data \in WireProfiles :
    /\ profileCache' = [profileCache EXCEPT ![i] = cacheProfile(@, ProfileUpdatePartial(data))]
    /\ persistTimer' = TRUE
    /\ UNCHANGED <<memVars, codecVars, uiVars, persisted, faultVars, messages, histVars, chatVars>>

\* initialize / broadcastProfile / ChatScreen seeding the own entry.
SeedOwnProfile ==
  \E username \in {Null, "v1"}, image \in {Absent, "v1"} :
    /\ profileCache' = [profileCache EXCEPT ![Me] = cacheProfile(@, OwnSeedPartial(username, image))]
    /\ persistTimer' = TRUE
    /\ UNCHANGED <<memVars, codecVars, uiVars, persisted, faultVars, messages, histVars, chatVars>>

\* ChatScreen: cacheProfile(myInboxId, { nftImage: verifiedNft.image }).
SyncOwnNft ==
  /\ profileCache' = [profileCache EXCEPT ![Me] =
       cacheProfile(@, [f \in ProfileFields |-> IF f = "nftImage" THEN "v1" ELSE Absent])]
  /\ persistTimer' = TRUE
  /\ UNCHANGED <<memVars, codecVars, uiVars, persisted, faultVars, messages, histVars, chatVars>>

\* ------------------------------------------------------------------------
\* Messages and the codec (lib/xmtp)
\* ------------------------------------------------------------------------

\* Transport ids are <<"t", n>>, optimistic ids (`opt-${Date.now()}`) <<"opt", n>>.
Tid(n) == <<"t", n>>
OptId(n) == <<"opt", n>>
IsOpt(id) == id[1] = "opt"

REACTIONS == {"banana"}
\* Keys every object inherits from Object.prototype: reactions[key] is truthy
\* and has no reactors array.
ProtoKeys == {"constructor"}
Emojis == REACTIONS \cup {"fire"} \cup ProtoKeys

NoNft == "none"

RawText(n, sender, body) ==
  [id |-> Tid(n), sender |-> sender, tag |-> "TEXT", body |-> body,
   emoji |-> "", target |-> Tid(0), data |-> [f \in ProfileFields |-> Empty]]
RawReact(n, sender, emoji, target) ==
  [id |-> Tid(n), sender |-> sender, tag |-> "REACT", body |-> "",
   emoji |-> emoji, target |-> target, data |-> [f \in ProfileFields |-> Empty]]
RawProfile(n, sender, data) ==
  [id |-> Tid(n), sender |-> sender, tag |-> "PROFILE_UPDATE", body |-> "",
   emoji |-> "", target |-> Tid(0), data |-> data]

buildEmptyReactions ==
  [e \in REACTIONS |-> [count |-> 0, reactedByMe |-> FALSE, reactors |-> <<>>]]

\* A payload of a kind this version does not know; its content is the whole
\* payload string.
UnknownPayload == "FUTURE_KIND:xyz"
RawUnknown(n, sender) ==
  [id |-> Tid(n), sender |-> sender, tag |-> "FUTURE_KIND", body |-> UnknownPayload,
   emoji |-> "", target |-> Tid(0), data |-> [f \in ProfileFields |-> Empty]]

\* decodeMessage returns null for REACT:, PROFILE_UPDATE: and EVENT: payloads and
\* a ChatMessage for every other string.
SystemTags == {"REACT", "PROFILE_UPDATE", "EVENT"}
Decodable(raw) == raw.tag \notin SystemTags
decodeMessage(raw) ==
  [id |-> raw.id, sender |-> raw.sender, content |-> raw.body,
   reactions |-> buildEmptyReactions, nft |-> NoNft, status |-> "sent"]

enrichWithNft(msg, cache) ==
  IF msg.nft # NoNft THEN msg
  ELSE IF msg.sender \in ProfileIds /\ Truthy(cache[msg.sender]["nftImage"])
       THEN [msg EXCEPT !.nft = cache[msg.sender]["nftImage"]]
       ELSE msg

\* ------------------------------------------------------------------------
\* Wire format (lib/xmtp sendMessage, sendReply, parseContent, decodeMessage)
\* ------------------------------------------------------------------------
\* A string is a sequence of pieces; a piece is ":" or a run of characters
\* without ":" ("MSG", "REPLY", "REPLYv2", "REACT" are the letters of the
\* kind tags, "a" any other text). startsWith("MSG:") is a string whose
\* first two pieces are "MSG" and ":".
MaxBody == 3    \* pieces of a message body
MaxQuoted == 2  \* pieces of the quoted body of a reply

Colon == ":"
BodyPieces == {"MSG", "REPLY", "REACT", Colon, "a"}
StrUpTo(pieces, n) == UNION {[1..k -> pieces] : k \in 0..n}

\* An optional value: <<>> for undefined / null, <<x>> for x.
None == <<>>
Some(x) == <<x>>

startsWith(s, prefix) ==
  Len(s) >= Len(prefix) /\ SubSeq(s, 1, Len(prefix)) = prefix

\* indexOf(":"), counted from 1; 0 for -1.
indexOf(s, c) ==
  LET S == {i \in 1..Len(s) : s[i] = c}
  IN IF S = {} THEN 0 ELSE CHOOSE i \in S : \A j \in S : i <= j

\* s.slice(k) for k pieces.
slice(s, k) == SubSeq(s, k + 1, Len(s))

\* s.split(":"): "" gives [""].
RECURSIVE split(_)
split(s) ==
  LET idx == indexOf(s, Colon)
  IN IF idx = 0 THEN <<s>>
     ELSE <<SubSeq(s, 1, idx - 1)>> \o split(slice(s, idx))

\* parts.join(":")
RECURSIVE join(_)
join(parts) ==
  IF parts = <<>> THEN <<>>
  ELSE IF Len(parts) = 1 THEN parts[1]
  ELSE parts[1] \o <<Colon>> \o join(Tail(parts))

\* parts[i] ?? "" , with i counted from 0 as in the source
partOr(parts, i) == IF i + 1 <= Len(parts) THEN parts[i + 1] ELSE <<>>

\* Buffer.from(s).toString("base64"): the output has no ":" and determines s.
toBase64Piece(c) ==
  CASE c = Colon -> "Og"
    [] c = "a" -> "YQ"
    [] c = "MSG" -> "TVNH"
    [] c = "REPLY" -> "UkVQTFk"
    [] c = "REACT" -> "UkVBQ1Q"
    [] OTHER -> "UkVQTFl2Mg"
toBase64(s) == [i \in 1..Len(s) |-> toBase64Piece(s[i])]

\* Buffer.from(s, "base64").toString("utf8"): characters outside the base64
\* alphabet are skipped.
IsBase64Piece(c) == c \in {"Og", "YQ", "TVNH", "UkVQTFk", "UkVBQ1Q", "UkVQTFl2Mg"}
fromBase64Piece(c) ==
  CASE c = "Og" -> Colon
    [] c = "YQ" -> "a"
    [] c = "TVNH" -> "MSG"
    [] c = "UkVQTFk" -> "REPLY"
    [] c = "UkVBQ1Q" -> "REACT"
    [] OTHER -> "REPLYv2"
RECURSIVE fromBase64(_)
fromBase64(s) ==
  IF s = <<>> THEN <<>>
  ELSE IF IsBase64Piece(Head(s)) THEN <<fromBase64Piece(Head(s))>> \o fromBase64(Tail(s))
  ELSE fromBase64(Tail(s))

\* sendMessage: packed
sendMessage(content, username) ==
  IF username # <<>> THEN <<"MSG", Colon>> \o username \o <<Colon>> \o content
  ELSE content

\* sendReply: packed; targetMessage.senderUsername ?? ""
sendReply(targetMessage, replyContent, username) ==
  LET origB64 == toBase64(targetMessage.content)
      origUsername == IF targetMessage.senderUsername = None THEN <<>>
                      ELSE targetMessage.senderUsername[1]
      inner == <<"REPLYv2", Colon>> \o targetMessage.id \o <<Colon>>
               \o targetMessage.senderAddress \o <<Colon>> \o origUsername
               \o <<Colon>> \o origB64 \o <<Colon>> \o replyContent
  IN IF username # <<>> THEN <<"MSG", Colon>> \o username \o <<Colon>> \o inner
     ELSE inner

parseContent(raw) ==
  LET afterPrefix == slice(raw, 2)
      colonIdx == indexOf(afterPrefix, Colon)
  IN IF startsWith(raw, <<"MSG", Colon>>) /\ colonIdx # 0
     THEN [username |-> Some(SubSeq(afterPrefix, 1, colonIdx - 1)),
           inner |-> slice(afterPrefix, colonIdx)]
     ELSE [username |-> None, inner |-> raw]

\* x || undefined
orUndefinedStr(x) == IF x = <<>> THEN None ELSE Some(x)

\* decodeMessage on the content string of a raw message: None for null,
\* else the fields senderUsername, content and replyTo of the ChatMessage.
decodeContent(rawContent) ==
  IF rawContent = <<>> THEN None
  ELSE IF \/ startsWith(rawContent, <<"REACT", Colon>>)
          \/ startsWith(rawContent, <<"PROFILE_UPDATE", Colon>>)
          \/ startsWith(rawContent, <<"EVENT", Colon>>) THEN None
  ELSE
    LET p == parseContent(rawContent)
        inner == p.inner
    IN IF startsWith(inner, <<"REPLYv2", Colon>>)
       THEN LET parts == split(slice(inner, 2))
            IN Some([senderUsername |-> p.username,
                     content |-> join(SubSeq(parts, 5, Len(parts))),
                     replyTo |-> Some([id |-> partOr(parts, 0),
                                       senderAddress |-> partOr(parts, 1),
                                       senderUsername |-> orUndefinedStr(partOr(parts, 2)),
                                       content |-> fromBase64(partOr(parts, 3))])])
       ELSE IF startsWith(inner, <<"REPLY", Colon>>)
       THEN LET parts == split(inner)
            IN Some([senderUsername |-> p.username,
                     content |-> join(SubSeq(parts, 4, Len(parts))),
                     replyTo |-> Some([id |-> partOr(parts, 1),
                                       senderAddress |-> partOr(parts, 2),
                                       senderUsername |-> None,
                                       content |-> <<>>])])
       ELSE Some([senderUsername |-> p.username, content |-> inner, replyTo |-> None])

Usernames == {<<>>, <<"a">>}
NoTarget == [id |-> <<>>, senderAddress |-> <<>>, senderUsername |-> None, content |-> <<>>]
Targets ==
  {[id |-> <<"a">>, senderAddress |-> <<"a">>, senderUsername |-> un, content |-> c] :
     un \in {None, Some(<<"a">>)}, c \in StrUpTo({Colon, "a", "REPLYv2"}, MaxQuoted)}
ReplyBodies == {<<"a">>, <<"a", Colon, "a">>, <<Colon>>, <<"REPLY", Colon, "a">>}

TextInputs ==
  {[kind |-> "text", username |-> u, body |-> b, target |-> NoTarget] :
     u \in Usernames, b \in StrUpTo(BodyPieces, MaxBody) \ {<<>>}}
ReplyInputs ==
  {[kind |-> "reply", username |-> u, body |-> b, target |-> t] :
     u \in Usernames, b \in ReplyBodies, t \in Targets}

\* The wire format at rest, for the specifications that do not use it.
CodecIdle ==
  /\ codecIn = [kind |-> "text", username |-> <<>>, body |-> <<"a">>, target |-> NoTarget]
  /\ codecOut = None
  /\ codecDone = FALSE

\* ------------------------------------------------------------------------
\* Reaction aggregator (lib/xmtp applyReaction)
\* ------------------------------------------------------------------------

SeqIncludes(s, x) == \E i \in 1..Len(s) : s[i] = x

\* A toggle that counts every reaction, also one that removes the reactor.
toggleReactionAlwaysCounts(existing, sender, myInboxId) ==
  LET alreadyReacted == SeqIncludes(existing.reactors, sender)
  IN [count |-> existing.count + 1,
      reactedByMe |-> IF sender = myInboxId THEN ~existing.reactedByMe
                      ELSE existing.reactedByMe,
      reactors |-> IF alreadyReacted THEN SeqFilterOut(existing.reactors, sender)
                   ELSE Append(existing.reactors, sender)]

\* A toggle that sets reactedByMe instead of flipping it.
toggleReactionSetsMine(existing, sender, myInboxId) ==
  LET alreadyReacted == SeqIncludes(existing.reactors, sender)
  IN [count |-> IF alreadyReacted THEN existing.count - 1 ELSE existing.count + 1,
      reactedByMe |-> IF sender = myInboxId THEN TRUE ELSE existing.reactedByMe,
      reactors |-> IF alreadyReacted THEN SeqFilterOut(existing.reactors, sender)
                   ELSE Append(existing.reactors, sender)]

\* A toggle that flips reactedByMe for every sender.
toggleReactionAnySender(existing, sender, myInboxId) ==
  LET alreadyReacted == SeqIncludes(existing.reactors, sender)
  IN [count |-> IF alreadyReacted THEN existing.count - 1 ELSE existing.count + 1,
      reactedByMe |-> ~existing.reactedByMe,
      reactors |-> IF alreadyReacted THEN SeqFilterOut(existing.reactors, sender)
                   ELSE Append(existing.reactors, sender)]

toggleReaction(existing, sender, myInboxId) ==
  LET alreadyReacted == SeqIncludes(existing.reactors, sender)
  IN [count |-> IF alreadyReacted THEN existing.count - 1 ELSE existing.count + 1,
      reactedByMe |-> IF sender = myInboxId THEN ~existing.reactedByMe
                      ELSE existing.reactedByMe,
      reactors |-> IF alreadyReacted THEN SeqFilterOut(existing.reactors, sender)
                   ELSE Append(existing.reactors, sender)]

\* existing.reactors.includes throws when existing is an inherited property.
applyReactionThrows(msgs, raw) ==
  /\ raw.tag = "REACT"
  /\ \E i \in 1..Len(msgs) :
       /\ msgs[i].id = raw.target
       /\ raw.emoji \notin DOMAIN msgs[i].reactions
       /\ raw.emoji \in ProtoKeys

\* An aggregator that toggles on every message, whatever the target id.
applyReactionAnyTarget(msgs, raw, myInboxId) ==
  IF raw.tag # "REACT" THEN msgs
  ELSE [i \in 1..Len(msgs) |->
          IF raw.emoji \notin DOMAIN msgs[i].reactions THEN msgs[i]
          ELSE [msgs[i] EXCEPT !.reactions[raw.emoji] =
                  toggleReaction(@, raw.sender, myInboxId)]]

applyReaction(msgs, raw, myInboxId) ==
  IF raw.tag # "REACT" THEN msgs
  ELSE [i \in 1..Len(msgs) |->
          IF msgs[i].id # raw.target THEN msgs[i]
          ELSE IF raw.emoji \notin DOMAIN msgs[i].reactions THEN msgs[i]
          ELSE [msgs[i] EXCEPT !.reactions[raw.emoji] =
                  toggleReaction(@, raw.sender, myInboxId)]]

\* ------------------------------------------------------------------------
\* Chat store (store/chatStore)
\* ------------------------------------------------------------------------

HasId(msgs, id) == \E i \in 1..Len(msgs) : msgs[i].id = id

\* findIndex of the first opt-* entry with the message's sender and content,
\* 0 for -1.
findOptIdx(msgs, message) ==
  LET S == {i \in 1..Len(msgs) :
              /\ IsOpt(msgs[i].id)
              /\ msgs[i].sender = message.sender
              /\ msgs[i].content = message.content}
  IN IF S = {} THEN 0 ELSE CHOOSE i \in S : \A j \in S : i <= j

\* An upgrade that takes the avatar of the confirmed message only.
upgradedDropsNft(opt, message) == [message EXCEPT !.status = "sent"]

\* { ...message, senderNft: opt.senderNft ?? message.senderNft, status: 'sent' }
upgraded(opt, message) ==
  [message EXCEPT !.nft = IF opt.nft # NoNft THEN opt.nft ELSE message.nft,
                  !.status = "sent"]

addMessage(msgs, message) == Append(msgs, message)

\* A merge that skips the check for an entry with the same id.
mergeMessageNoIdCheck(msgs, message) ==
  LET optIdx == findOptIdx(msgs, message)
  IN IF optIdx # 0
     THEN [msgs EXCEPT ![optIdx] = upgraded(msgs[optIdx], message)]
     ELSE Append(msgs, message)

mergeMessage(msgs, message) ==
  IF HasId(msgs, message.id) THEN msgs
  ELSE LET optIdx == findOptIdx(msgs, message)
       IN IF optIdx # 0
          THEN [msgs EXCEPT ![optIdx] = upgraded(msgs[optIdx], message)]
          ELSE Append(msgs, message)

\* An upgrade that falls through to append when no optimistic entry matches.
upgradeOwnMessageAppends(msgs, message) ==
  IF HasId(msgs, message.id) THEN msgs
  ELSE LET optIdx == findOptIdx(msgs, message)
       IN IF optIdx = 0 THEN Append(msgs, message)
          ELSE [msgs EXCEPT ![optIdx] = upgraded(msgs[optIdx], message)]

upgradeOwnMessage(msgs, message) ==
  IF HasId(msgs, message.id) THEN msgs
  ELSE LET optIdx == findOptIdx(msgs, message)
       IN IF optIdx = 0 THEN msgs
          ELSE [msgs EXCEPT ![optIdx] = upgraded(msgs[optIdx], message)]

updateMessageStatus(msgs, id, status) ==
  [i \in 1..Len(msgs) |->
     IF msgs[i].id = id THEN [msgs[i] EXCEPT !.status = status] ELSE msgs[i]]

\* ------------------------------------------------------------------------
\* syncMessages and the stream handler (hooks/useXmtp)
\* ------------------------------------------------------------------------

HISTORY_LIMIT == 100
SYNC_LIMIT == 50

\* group.messages({ limit }): the newest `limit` entries of the log as it was
\* when it had n entries, newest first.
fetchMessages(theLog, n, limit) ==
  Reverse(SubSeq(theLog, IF n > limit THEN n - limit + 1 ELSE 1, n))

\* rawHistory.map(decodeMessage).filter(m => !!m && !existingIds.has(m.id))
RECURSIVE decodeNew(_, _)
decodeNew(raws, existing) ==
  IF raws = <<>> THEN <<>>
  ELSE IF Decodable(Head(raws)) /\ ~HasId(existing, Head(raws).id)
       THEN <<decodeMessage(Head(raws))>> \o decodeNew(Tail(raws), existing)
       ELSE decodeNew(Tail(raws), existing)

RECURSIVE mergeNew(_, _, _)
mergeNew(msgs, newMsgs, cache) ==
  IF newMsgs = <<>> THEN msgs
  ELSE LET msg == Head(newMsgs)
           next == IF msg.sender = Me
                   THEN upgradeOwnMessage(msgs, enrichWithNft(msg, cache))
                   ELSE mergeMessage(msgs, enrichWithNft(msg, cache))
       IN mergeNew(next, Tail(newMsgs), cache)

\* A sync that merges the batch as fetched, newest first.
syncApplyNewestFirst(msgs, rawHistory, cache) ==
  mergeNew(msgs, decodeNew(rawHistory, msgs), cache)

\* The synchronous part of syncMessages after its fetch.
syncApply(msgs, rawHistory, cache) ==
  mergeNew(msgs, Reverse(decodeNew(rawHistory, msgs)), cache)

\* The stream handler's effect on the message list.
handleLive(msgs, raw, cache) ==
  IF raw.tag = "REACT"
  THEN IF applyReactionThrows(msgs, raw) THEN msgs ELSE applyReaction(msgs, raw, Me)
  ELSE IF ~Decodable(raw) THEN msgs
  ELSE IF raw.sender = Me THEN msgs
  ELSE mergeMessage(msgs, enrichWithNft(decodeMessage(raw), cache))

\* The stream handler's effect on the profile cache.
handleLiveProfile(cache, raw) ==
  IF raw.tag = "PROFILE_UPDATE" /\ raw.sender \in ProfileIds
  THEN [cache EXCEPT ![raw.sender] = cacheProfile(@, ProfileUpdatePartial(raw.data))]
  ELSE cache

\* ------------------------------------------------------------------------
\* History load of initialize (hooks/useXmtp, passes 1 and 2)
\* ------------------------------------------------------------------------

\* A payload for which the handlers call cacheProfile (and so _schedulePersist).
SeedsProfile(raw) == raw.tag = "PROFILE_UPDATE" /\ raw.sender \in ProfileIds

\* Pass 1: seed the profile cache from the PROFILE_UPDATE payloads, in order.
RECURSIVE seedProfiles(_, _)
seedProfiles(cache, raws) ==
  IF raws = <<>> THEN cache
  ELSE LET raw == Head(raws)
           next == IF raw.tag = "PROFILE_UPDATE" /\ raw.sender \in ProfileIds
                   THEN [cache EXCEPT ![raw.sender] =
                           cacheProfile(@, ProfileUpdatePartial(raw.data))]
                   ELSE cache
       IN seedProfiles(next, Tail(raws))

\* rawHistory.map(decodeMessage).filter(Boolean)
RECURSIVE decodeAll(_)
decodeAll(raws) ==
  IF raws = <<>> THEN <<>>
  ELSE IF Decodable(Head(raws))
       THEN <<decodeMessage(Head(raws))>> \o decodeAll(Tail(raws))
       ELSE decodeAll(Tail(raws))

\* Pass 2: every REACT: payload applied to the fully decoded list; a payload
\* whose applyReaction throws is skipped by the try/catch.
RECURSIVE applyReactions(_, _)
applyReactions(decoded, raws) ==
  IF raws = <<>> THEN decoded
  ELSE LET raw == Head(raws)
           next == IF raw.tag = "REACT" /\ ~applyReactionThrows(decoded, raw)
                   THEN applyReaction(decoded, raw, Me)
                   ELSE decoded
       IN applyReactions(next, Tail(raws))

\* A single pass that applies each reaction when it is met, to the messages
\* decoded so far.
RECURSIVE interleavedPass(_, _)
interleavedPass(decoded, raws) ==
  IF raws = <<>> THEN decoded
  ELSE LET raw == Head(raws)
           next == IF Decodable(raw) THEN Append(decoded, decodeMessage(raw))
                   ELSE IF raw.tag = "REACT" /\ ~applyReactionThrows(decoded, raw)
                   THEN applyReaction(decoded, raw, Me)
                   ELSE decoded
       IN interleavedPass(next, Tail(raws))

decodeInterleaved(raws) == interleavedPass(<<>>, raws)

decodeHistory(raws) == applyReactions(decodeAll(raws), raws)

\* historyMessages.reverse(): the list handed to setMessages.
historyMessages(raws, cache) ==
  LET decoded == decodeHistory(raws)
  IN Reverse([i \in 1..Len(decoded) |-> enrichWithNft(decoded[i], cache)])

\* ------------------------------------------------------------------------
\* Bounds
\* ------------------------------------------------------------------------

MaxMsgs == 2    \* messages in the list of the reaction sub-model
MaxHist == 4    \* raw messages in a fetched history
MaxLog == 3     \* messages on the transport log
MaxSends == 2   \* handleSend calls
MaxSyncs == 2   \* syncMessages calls in flight
MaxInits == 2   \* initialize runs of a session
MaxWarns == 1   \* failed syncMessages calls

\* ------------------------------------------------------------------------
\* Membership workflow: data
\* ------------------------------------------------------------------------
MaxGroups == 3  \* groups created on the transport
MaxRuns == 2    \* initialize runs of one install in flight at a time
MaxDMs == 2     \* dmCount stops counting here

Devices == {"A", "B"}   \* installs; the inboxId of an install is its name
Groups == 1..MaxGroups
Runs == 1..MaxRuns
NoGroup == 0            \* '' as a group id, null as a group
NoAdmin == ""           \* '' as adminInboxId

\* remoteConfig: const EMPTY
EMPTY == [globalGroupId |-> NoGroup, adminInboxId |-> NoAdmin]

\* The blob sha of the GitHub Contents API is a hash of the file's content:
\* two contents have the same sha exactly when they are equal.
sha(content) == content

\* appStore: initial state of the membership fields
AppDefaults ==
  [isGroupMember |-> FALSE, isGroupAdmin |-> FALSE, remoteGroupId |-> NoGroup]

\* A fresh install: no key is stored.
StorageEmpty ==
  [AK_IS_ADMIN |-> FALSE, AK_JOIN_REQUEST_SENT |-> FALSE, SK_TOKEN |-> FALSE]

\* An initialize run that is not in flight; config, group, isNewAdmin,
\* storedAdmin are the locals of initialize, sha is info.sha of publishAppConfig.
RunIdle ==
  [pc |-> "idle", config |-> EMPTY, group |-> NoGroup, isNewAdmin |-> FALSE,
   storedAdmin |-> FALSE, sha |-> sha(EMPTY)]

\* Every install fresh, nothing launched, the directory without a group id.
MemIdle ==
  /\ directory = EMPTY
  /\ members = [g \in Groups |-> {}]
  /\ inbox = [d \in Devices |-> {}]
  /\ dmCount = [d \in Devices |-> 0]
  /\ storage = [d \in Devices |-> StorageEmpty]
  /\ app = [d \in Devices |-> AppDefaults]
  /\ curGroup = [d \in Devices |-> NoGroup]
  /\ run = [d \in Devices |-> [r \in Runs |-> RunIdle]]
  /\ approve = [d \in Devices |-> NoGroup]

\* Nothing is persisted and no persist timer is pending.
PersistIdle ==
  /\ persisted = [i \in ProfileIds |-> NoProfile]
  /\ persistTimer = FALSE

\* The chat sub-model at rest, for the specifications that do not use it.
ChatIdle ==
  /\ log = <<>>
  /\ sendPc = "idle" /\ sendCount = 0 /\ sendTid = [k \in 1..MaxSends |-> 0]
  /\ sendRun = 0
  /\ syncSnap = [c \in 1..MaxSyncs |-> -1]
  /\ inits = [r \in 1..MaxInits |-> [pc |-> "none", snap |-> 0]]
  /\ subs = {} /\ pos = [h \in 1..MaxInits |-> 0]
  /\ unsubscribeStream = 0 /\ streamAlive = FALSE
  /\ isGroupMember = FALSE
  /\ groupSet = FALSE
  /\ error = FALSE /\ warns = 0
  /\ mounted = TRUE /\ isLoading = FALSE /\ isLoadingHistory = FALSE
  /\ PersistIdle

\* ------------------------------------------------------------------------
\* Specification of the profile cache
\* ------------------------------------------------------------------------

InitProfile ==
  /\ ProfileInit
  /\ messages = <<>>
  /\ histRaw = <<>>
  /\ histDone = FALSE
  /\ ChatIdle
  /\ MemIdle
  /\ CodecIdle

NextProfile == ProfileUpdate \/ SeedOwnProfile \/ SyncOwnNft

SpecProfile == InitProfile /\ [][NextProfile]_vars

\* ------------------------------------------------------------------------
\* Specification of the profile cache and its persisted copy
\* ------------------------------------------------------------------------

\* The wire objects of the PROFILE_UPDATE payloads of a member who first has
\* a display name and no avatar, then another display name and an avatar.
EditedProfiles ==
  {[f \in ProfileFields |->
      IF f = "username" THEN e[1] ELSE IF f = "nftImage" THEN e[2] ELSE Empty] :
     e \in {<<"v1", Empty>>, <<"v2", "v2">>}}

\* The stream handler on a PROFILE_UPDATE: payload: cacheProfile, which ends
\* with _schedulePersist().
LiveProfileUpdate ==
  \E i \in ProfileIds, data \in EditedProfiles :
    /\ profileCache' = [profileCache EXCEPT ![i] = cacheProfile(@, ProfileUpdatePartial(data))]
    /\ persistTimer' = TRUE
    /\ UNCHANGED <<memVars, codecVars, uiVars, persisted, faultVars, messages, histVars, chatVars>>

\* The persist timer fires: the cache is written to AsyncStorage.
PersistFires ==
  /\ persistTimer
  /\ persisted' = toJSON(profileCache)
  /\ persistTimer' = FALSE
  /\ UNCHANGED <<memVars, codecVars, uiVars, faultVars, profileCache, messages, histVars, chatVars>>

\* Step 0 of an initialize run (reconnect, retry or send): loadProfileCache.
ReloadProfileCache ==
  /\ profileCache' = loadProfileCache(profileCache, persisted)
  /\ UNCHANGED <<memVars, codecVars, uiVars, persistVars, faultVars, messages, histVars, chatVars>>

NextPersist == LiveProfileUpdate \/ PersistFires \/ ReloadProfileCache

SpecPersist == InitProfile /\ [][NextPersist]_vars

\* ------------------------------------------------------------------------
\* Specification of the live reaction handler
\* ------------------------------------------------------------------------

FreshList(n) ==
  [i \in 1..n |-> decodeMessage(RawText(i, IF i % 2 = 1 THEN "u1" ELSE Me, "gm"))]

ReactInputs ==
  {RawReact(0, s, e, Tid(k)) : s \in Senders, e \in Emojis, k \in 1..(MaxMsgs + 1)}

InitReact ==
  /\ ProfileInit
  /\ \E n \in 1..MaxMsgs : messages = FreshList(n)
  /\ histRaw = <<>>
  /\ histDone = FALSE
  /\ ChatIdle
  /\ MemIdle
  /\ CodecIdle

\* The stream handler on a REACT: payload: applyReaction on the store's list,
\* then applyReactionUpdate; a throw leaves the store as it was.
LiveReact ==
  \E raw \in ReactInputs :
    /\ messages' = IF applyReactionThrows(messages, raw) THEN messages
                   ELSE applyReaction(messages, raw, Me)
    /\ UNCHANGED <<memVars, codecVars, uiVars, persistVars, faultVars, profileCache, histVars, chatVars>>

NextReact == LiveReact

SpecReact == InitReact /\ [][NextReact]_vars

\* ------------------------------------------------------------------------
\* Specification of the history load
\* ------------------------------------------------------------------------

HistPool ==
  { RawText(1, "u1", "gm"),
    RawText(2, Me, "yo"),
    RawReact(3, Me, "banana", Tid(1)),
    RawReact(4, "u1", "banana", Tid(1)),
    RawReact(5, Me, "banana", Tid(1)),
    RawReact(6, "u1", "banana", Tid(2)),
    RawReact(7, "u2", "constructor", Tid(1)),
    RawProfile(8, "u1", [f \in ProfileFields |-> IF f = "nftImage" THEN "v1" ELSE Empty]) }

Injective(f) == \A a, b \in DOMAIN f : a # b => f[a] # f[b]

Histories ==
  UNION { {h \in [1..n -> HistPool] : Injective(h)} : n \in 0..MaxHist }

Reorderings(s) ==
  { [i \in 1..Len(s) |-> s[p[i]]] :
      p \in {q \in [1..Len(s) -> 1..Len(s)] : Injective(q)} }

InitHist ==
  /\ ProfileInit
  /\ messages = <<>>
  /\ histRaw \in Histories
  /\ histDone = FALSE
  /\ ChatIdle
  /\ MemIdle
  /\ CodecIdle

\* initialize, step 4: pass 1, pass 2, enrich, setMessages.
HistoryLoad ==
  /\ ~histDone
  /\ profileCache' = seedProfiles(profileCache, histRaw)
  /\ messages' = historyMessages(histRaw, profileCache')
  /\ histDone' = TRUE
  /\ persistTimer' = (persistTimer \/ \E n \in 1..Len(histRaw) : SeedsProfile(histRaw[n]))
  /\ UNCHANGED <<memVars, codecVars, uiVars, persisted, faultVars, histRaw, chatVars>>

NextHist == HistoryLoad

SpecHist == InitHist /\ [][NextHist]_vars

\* The history load followed by reactions on the live stream.
LiveReactAfterLoad == histDone /\ LiveReact

NextLoaded == HistoryLoad \/ LiveReactAfterLoad

SpecLoaded == InitHist /\ [][NextLoaded]_vars

\* ------------------------------------------------------------------------
\* The chat session: sends, the stream, syncMessages, initialize
\* ------------------------------------------------------------------------

OwnNft == "v1"
Body == "gm"

\* handleSend's optimistic entry.
optimistic(k) ==
  [id |-> OptId(k), sender |-> Me, content |-> Body, reactions |-> <<>>,
   nft |-> OwnNft, status |-> "sending"]

FreeInit == {r \in 1..MaxInits : inits[r].pc = "none"}
LowestFreeInit == CHOOSE r \in FreeInit : \A q \in FreeInit : r <= q
FreeSync == {c \in 1..MaxSyncs : syncSnap[c] = -1}
LowestFreeSync == CHOOSE c \in FreeSync : \A d \in FreeSync : c <= d

\* Another member's message reaches the transport.
OtherSends ==
  /\ Len(log) < MaxLog
  /\ log' = Append(log, RawText(Len(log) + 1, "u1", Body))
  /\ UNCHANGED <<memVars, codecVars, uiVars, persistVars, faultVars, profileCache, messages, histVars, sendVars, syncSnap, inits,
                 streamVars, isGroupMember, groupSet>>

\* Another member's client sends a payload of a kind this version does not know.
OtherSendsUnknown ==
  /\ Len(log) < MaxLog
  /\ log' = Append(log, RawUnknown(Len(log) + 1, "u1"))
  /\ UNCHANGED <<memVars, codecVars, uiVars, persistVars, faultVars, profileCache, messages, histVars, sendVars, syncSnap,
                 inits, streamVars, isGroupMember, groupSet>>

\* handleSend up to its await: the optimistic entry is added; send() awaits
\* the transport, or first an initialize of its own when _group is null.
HandleSend ==
  /\ sendPc = "idle"
  /\ sendCount < MaxSends
  /\ groupSet \/ FreeInit # {}
  /\ messages' = addMessage(messages, optimistic(sendCount + 1))
  /\ sendCount' = sendCount + 1
  /\ IF groupSet
     THEN /\ sendPc' = "sending"
          /\ UNCHANGED <<sendRun, inits, isLoading>>
     ELSE /\ sendPc' = "init"
          /\ sendRun' = LowestFreeInit
          /\ inits' = [inits EXCEPT ![LowestFreeInit] = [pc |-> "start", snap |-> 0]]
          /\ isLoading' = TRUE
  /\ UNCHANGED <<memVars, codecVars, mounted, isLoadingHistory, persistVars, faultVars, profileCache, histVars, log, sendTid, syncSnap, streamVars,
                 isGroupMember, groupSet>>

\* send() after its own initialize returned: throws when _group is still null.
SendAfterInit ==
  /\ sendPc = "init"
  /\ inits[sendRun].pc = "done"
  /\ sendRun' = 0
  /\ IF groupSet
     THEN sendPc' = "sending" /\ UNCHANGED messages
     ELSE /\ sendPc' = "idle"
          /\ messages' = updateMessageStatus(messages, OptId(sendCount), "failed")
  /\ UNCHANGED <<memVars, codecVars, uiVars, persistVars, faultVars, profileCache, histVars, log, sendCount, sendTid, syncSnap, inits,
                 streamVars, isGroupMember, groupSet>>

\* group.send(packed): the transport stores the message and gives it an id.
TransportAccept ==
  /\ sendPc = "sending"
  /\ Len(log) < MaxLog
  /\ log' = Append(log, RawText(Len(log) + 1, Me, Body))
  /\ sendTid' = [sendTid EXCEPT ![sendCount] = Len(log) + 1]
  /\ sendPc' = "accepted"
  /\ UNCHANGED <<memVars, codecVars, uiVars, persistVars, faultVars, profileCache, messages, histVars, sendCount, sendRun, syncSnap, inits,
                 streamVars, isGroupMember, groupSet>>

\* The send promise resolves: updateMessageStatus(optimistic.id, "sent").
SendResolve ==
  /\ sendPc = "accepted"
  /\ messages' = updateMessageStatus(messages, OptId(sendCount), "sent")
  /\ sendPc' = "idle"
  /\ UNCHANGED <<memVars, codecVars, uiVars, persistVars, faultVars, profileCache, histVars, log, sendCount, sendTid, sendRun, syncSnap,
                 inits, streamVars, isGroupMember, groupSet>>

\* The transport send throws: updateMessageStatus(optimistic.id, "failed").
SendFail ==
  /\ sendPc = "sending"
  /\ messages' = updateMessageStatus(messages, OptId(sendCount), "failed")
  /\ sendPc' = "idle"
  /\ UNCHANGED <<memVars, codecVars, uiVars, persistVars, faultVars, profileCache, histVars, log, sendCount, sendTid, sendRun, syncSnap,
                 inits, streamVars, isGroupMember, groupSet>>

\* The transport hands the next log entry to a subscribed handler.
LiveDeliver ==
  \E h \in subs :
    /\ pos[h] <= Len(log)
    /\ pos' = [pos EXCEPT ![h] = @ + 1]
    /\ streamAlive' = TRUE
    /\ messages' = handleLive(messages, log[pos[h]], profileCache)
    /\ profileCache' = handleLiveProfile(profileCache, log[pos[h]])
    /\ persistTimer' = (persistTimer \/ SeedsProfile(log[pos[h]]))
    /\ UNCHANGED <<memVars, codecVars, uiVars, persisted, faultVars, histVars, log, sendVars, syncSnap, inits, subs, unsubscribeStream,
                   isGroupMember, groupSet>>

\* syncMessages up to the end of its fetch (the foreground listener, or the
\* heartbeat when the stream is alive).
SyncFetch ==
  /\ groupSet
  /\ FreeSync # {}
  /\ syncSnap' = [syncSnap EXCEPT ![LowestFreeSync] = Len(log)]
  /\ UNCHANGED <<memVars, codecVars, uiVars, persistVars, faultVars, profileCache, messages, histVars, log, sendVars, inits, streamVars,
                 isGroupMember, groupSet>>

\* syncMessages after its fetch: decode, filter, merge.
SyncApply ==
  \E c \in 1..MaxSyncs :
    /\ syncSnap[c] >= 0
    /\ messages' = syncApply(messages, fetchMessages(log, syncSnap[c], SYNC_LIMIT), profileCache)
    /\ syncSnap' = [syncSnap EXCEPT ![c] = -1]
    /\ UNCHANGED <<memVars, codecVars, uiVars, persistVars, faultVars, profileCache, histVars, log, sendVars, inits, streamVars,
                   isGroupMember, groupSet>>

\* The heartbeat finds the stream not alive and calls initialize.
HeartbeatInit ==
  /\ isGroupMember
  /\ ~streamAlive
  /\ FreeInit # {}
  /\ inits' = [inits EXCEPT ![LowestFreeInit] = [pc |-> "start", snap |-> 0]]
  /\ isLoading' = TRUE
  /\ UNCHANGED <<memVars, codecVars, mounted, isLoadingHistory, persistVars, faultVars, profileCache, messages, histVars, log, sendVars, syncSnap, streamVars,
                 isGroupMember, groupSet>>

\* initialize on a device that is a member, up to the history fetch:
\* setError(null), the group is found, _group is set, setIsGroupMember(true).
InitResolve ==
  \E r \in 1..MaxInits :
    /\ inits[r].pc = "start"
    /\ inits' = [inits EXCEPT ![r].pc = "fetch"]
    /\ groupSet' = TRUE
    /\ isGroupMember' = TRUE
    /\ error' = FALSE
    /\ profileCache' = loadProfileCache(profileCache, persisted)
    /\ isLoadingHistory' = TRUE
    /\ UNCHANGED <<memVars, codecVars, mounted, isLoading, persistVars, warns, messages, histVars, log, sendVars,
                   syncSnap, streamVars>>

\* group.sync(); group.messages({ limit: 100 }).
InitFetch ==
  \E r \in 1..MaxInits :
    /\ inits[r].pc = "fetch"
    /\ inits' = [inits EXCEPT ![r] = [pc |-> "load", snap |-> Len(log)]]
    /\ UNCHANGED <<memVars, codecVars, uiVars, persistVars, faultVars, profileCache, messages, histVars, log, sendVars, syncSnap, streamVars,
                   isGroupMember, groupSet>>

\* Passes 1 and 2, setMessages, then _unsubscribeStream?.(), _streamAlive = false
\* and the call of streamMessages.
InitLoad ==
  \E r \in 1..MaxInits :
    /\ inits[r].pc = "load"
    /\ LET raws == fetchMessages(log, inits[r].snap, HISTORY_LIMIT)
       IN /\ profileCache' = seedProfiles(profileCache, raws)
          /\ messages' = historyMessages(raws, profileCache')
    /\ subs' = subs \ {unsubscribeStream}
    /\ pos' = [h \in 1..MaxInits |-> IF h = unsubscribeStream THEN 0 ELSE pos[h]]
    /\ streamAlive' = FALSE
    /\ inits' = [inits EXCEPT ![r].pc = "subscribe"]
    /\ isLoadingHistory' = FALSE
    /\ persistTimer' =
         (persistTimer \/
            LET raws == fetchMessages(log, inits[r].snap, HISTORY_LIMIT)
            IN \E n \in 1..Len(raws) : SeedsProfile(raws[n]))
    /\ UNCHANGED <<memVars, codecVars, mounted, isLoading, persisted, faultVars, histVars, log, sendVars, syncSnap, unsubscribeStream,
                   isGroupMember, groupSet>>

\* A history load that clears the list before its fetch, so that a rejected
\* fetch leaves the list empty.
InitThrowsClears ==
  \E r \in 1..MaxInits :
    /\ inits[r].pc = "load"
    /\ inits' = [inits EXCEPT ![r].pc = "done"]
    /\ error' = TRUE
    /\ messages' = <<>>
    /\ isLoading' = FALSE
    /\ UNCHANGED <<memVars, codecVars, mounted, isLoadingHistory, persistVars, warns, profileCache, histVars, log, sendVars,
                   syncSnap, streamVars, isGroupMember, groupSet>>

\* group.sync() or group.messages() of the history load rejects: the catch of
\* initialize calls setError(message) and the run ends.
InitThrows ==
  \E r \in 1..MaxInits :
    /\ inits[r].pc = "load"
    /\ inits' = [inits EXCEPT ![r].pc = "done"]
    /\ error' = TRUE
    /\ isLoading' = FALSE
    /\ UNCHANGED <<memVars, codecVars, mounted, isLoadingHistory, persistVars, warns, profileCache, messages, histVars, log, sendVars,
                   syncSnap, streamVars, isGroupMember, groupSet>>

\* group.sync() or group.messages() of syncMessages rejects: the catch logs
\* a warning and the call ends.
SyncThrows ==
  \E c \in 1..MaxSyncs :
    /\ syncSnap[c] >= 0
    /\ warns < MaxWarns
    /\ syncSnap' = [syncSnap EXCEPT ![c] = -1]
    /\ warns' = warns + 1
    /\ UNCHANGED <<memVars, codecVars, uiVars, persistVars, error, profileCache, messages, histVars, log, sendVars,
                   inits, streamVars, isGroupMember, groupSet>>

\* streamMessages resolves: the run's handler is subscribed, _streamAlive = true,
\* _unsubscribeStream = the closure over this run's unsub.
InitSubscribed ==
  \E r \in 1..MaxInits :
    /\ inits[r].pc = "subscribe"
    /\ subs' = subs \cup {r}
    /\ pos' = [pos EXCEPT ![r] = Len(log) + 1]
    /\ streamAlive' = TRUE
    /\ unsubscribeStream' = r
    /\ inits' = [inits EXCEPT ![r].pc = "done"]
    /\ isLoading' = FALSE
    /\ UNCHANGED <<memVars, codecVars, mounted, isLoadingHistory, persistVars, faultVars, profileCache, messages, histVars, log, sendVars, syncSnap,
                   isGroupMember, groupSet>>

\* The stream dies: the handler's raw.content() throws and _streamAlive = false.
StreamDies ==
  /\ streamAlive
  /\ subs # {}
  /\ streamAlive' = FALSE
  /\ UNCHANGED <<memVars, codecVars, uiVars, persistVars, faultVars, profileCache, messages, histVars, log, sendVars, syncSnap, inits,
                 subs, pos, unsubscribeStream, isGroupMember, groupSet>>

\* A connected session: initialize has loaded the history and subscribed.
InitChat ==
  /\ ProfileInit
  /\ histRaw = <<>> /\ histDone = FALSE
  /\ \E pre \in {<<>>, <<RawText(1, Me, Body)>>, <<RawText(1, "u1", Body)>>} :
       /\ log = pre
       /\ messages = historyMessages(fetchMessages(pre, Len(pre), HISTORY_LIMIT), profileCache)
       /\ pos = [h \in 1..MaxInits |-> IF h = 1 THEN Len(pre) + 1 ELSE 0]
  /\ sendPc = "idle" /\ sendCount = 0 /\ sendTid = [k \in 1..MaxSends |-> 0]
  /\ sendRun = 0
  /\ syncSnap = [c \in 1..MaxSyncs |-> -1]
  /\ inits = [r \in 1..MaxInits |-> [pc |-> IF r = 1 THEN "done" ELSE "none", snap |-> 0]]
  /\ subs = {1} /\ unsubscribeStream = 1 /\ streamAlive = TRUE
  /\ isGroupMember = TRUE /\ groupSet = TRUE
  /\ error = FALSE /\ warns = 0
  /\ mounted = TRUE /\ isLoading = FALSE /\ isLoadingHistory = FALSE
  /\ PersistIdle
  /\ MemIdle
  /\ CodecIdle

NextChat ==
  \/ OtherSends \/ HandleSend \/ TransportAccept \/ SendResolve \/ SendFail
  \/ LiveDeliver \/ SyncFetch \/ SyncApply

SpecChat == InitChat /\ [][NextChat]_vars

\* Another member reacts to a message of the log it has not reacted to yet:
\* sendReaction puts REACT:<emoji>:<targetId> on the transport.
OtherReacts ==
  \E s \in Senders \ {Me}, k \in 1..Len(log) :
    /\ Len(log) < MaxLog
    /\ log[k].tag = "TEXT"
    /\ \A n \in 1..Len(log) :
         ~(log[n].tag = "REACT" /\ log[n].sender = s /\ log[n].target = log[k].id)
    /\ log' = Append(log, RawReact(Len(log) + 1, s, "banana", log[k].id))
    /\ UNCHANGED <<memVars, codecVars, uiVars, persistVars, faultVars, profileCache, messages, histVars, sendVars, syncSnap, inits,
                   streamVars, isGroupMember, groupSet>>

\* A connected session in which other members react to the messages sent.
NextReacted ==
  \/ HandleSend \/ TransportAccept \/ SendResolve \/ OtherReacts
  \/ LiveDeliver \/ SyncFetch \/ SyncApply

SpecReacted == InitChat /\ [][NextReacted]_vars

\* A session from the mount of the chat screen: its first initialize starts.
InitSession ==
  /\ ProfileInit
  /\ messages = <<>>
  /\ histRaw = <<>> /\ histDone = FALSE
  /\ \E pre \in {<<>>, <<RawText(1, "u1", Body)>>} : log = pre
  /\ sendPc = "idle" /\ sendCount = 0 /\ sendTid = [k \in 1..MaxSends |-> 0]
  /\ sendRun = 0
  /\ syncSnap = [c \in 1..MaxSyncs |-> -1]
  /\ inits = [r \in 1..MaxInits |-> [pc |-> IF r = 1 THEN "start" ELSE "none", snap |-> 0]]
  /\ subs = {} /\ pos = [h \in 1..MaxInits |-> 0]
  /\ unsubscribeStream = 0 /\ streamAlive = FALSE
  /\ isGroupMember = FALSE /\ groupSet = FALSE
  /\ error = FALSE /\ warns = 0
  /\ mounted = TRUE /\ isLoading = TRUE /\ isLoadingHistory = FALSE
  /\ PersistIdle
  /\ MemIdle
  /\ CodecIdle

\* In the session specification one message is sent and one syncMessages call
\* is in flight at a time; the initialize runs overlap freely.
SessionSend == HandleSend /\ sendCount = 0
SessionSyncFetch == SyncFetch /\ FreeSync = 1..MaxSyncs

NextSession ==
  \/ OtherSends \/ SessionSend \/ SendAfterInit \/ TransportAccept \/ SendResolve
  \/ SendFail \/ LiveDeliver \/ SessionSyncFetch \/ SyncApply
  \/ HeartbeatInit \/ InitResolve \/ InitFetch \/ InitLoad \/ InitSubscribed
  \/ StreamDies

SpecSession == InitSession /\ [][NextSession]_vars

\* The session with transport calls that reject.
NextFault ==
  \/ OtherSends \/ SessionSend \/ SendAfterInit \/ TransportAccept \/ SendResolve
  \/ SendFail \/ LiveDeliver \/ SessionSyncFetch \/ SyncApply \/ SyncThrows
  \/ HeartbeatInit \/ InitResolve \/ InitFetch \/ InitLoad \/ InitThrows
  \/ InitSubscribed \/ StreamDies

SpecFault == InitSession /\ [][NextFault]_vars

\* The stream subscriptions alone: initialize runs, the heartbeat, deliveries.
NextStream ==
  \/ OtherSends \/ LiveDeliver \/ HeartbeatInit \/ InitResolve \/ InitFetch
  \/ InitLoad \/ InitSubscribed \/ StreamDies

SpecStream == InitSession /\ [][NextStream]_vars

\* ChatScreen unmounts: the cleanup of the mount effect calls disconnect(),
\* _unsubscribeStream?.() and _unsubscribeStream = null; the cleanup of the
\* heartbeat effect clears its interval.
Disconnect ==
  /\ mounted
  /\ mounted' = FALSE
  /\ subs' = subs \ {unsubscribeStream}
  /\ pos' = [h \in 1..MaxInits |-> IF h = unsubscribeStream THEN 0 ELSE pos[h]]
  /\ streamAlive' = IF unsubscribeStream # 0 THEN FALSE ELSE streamAlive
  /\ unsubscribeStream' = 0
  /\ UNCHANGED <<memVars, codecVars, isLoading, isLoadingHistory, persistVars, faultVars,
                 profileCache, messages, histVars, log, sendVars, syncSnap, inits,
                 isGroupMember, groupSet>>

\* The heartbeat interval exists while the screen is mounted.
MountedHeartbeat == mounted /\ HeartbeatInit

\* The stream subscriptions of a session whose screen can unmount.
NextUnmount ==
  \/ OtherSends \/ LiveDeliver \/ MountedHeartbeat \/ InitResolve \/ InitFetch
  \/ InitLoad \/ InitSubscribed \/ StreamDies \/ Disconnect

SpecUnmount == InitSession /\ [][NextUnmount]_vars

\* The stream, the history load and syncMessages with payloads of an unknown
\* kind on the log.
NextUnknown ==
  \/ OtherSends \/ OtherSendsUnknown \/ LiveDeliver \/ SessionSyncFetch \/ SyncApply
  \/ HeartbeatInit \/ InitResolve \/ InitFetch \/ InitLoad \/ InitSubscribed
  \/ StreamDies

SpecUnknown == InitSession /\ [][NextUnknown]_vars

\* ------------------------------------------------------------------------
\* Membership workflow: initialize up to the history load, one action per
\* stretch between awaits that touch the directory, the transport or storage
\* ------------------------------------------------------------------------
otherVars == <<profileCache, messages, histVars, chatVars, faultVars, codecVars,
               uiVars, persistVars>>

FreeRun(d) == {r \in Runs : run[d][r].pc = "idle"}
LowestFreeRun(d) == CHOOSE r \in FreeRun(d) : \A q \in FreeRun(d) : r <= q

FreeGroups == {g \in Groups : members[g] = {}}
newGroupId == CHOOSE g \in FreeGroups : \A h \in FreeGroups : g <= h

\* ChatScreen, auto-retry effect: if (isGroupMember || !remoteGroupId) return
retryUnbound(a) == ~a.isGroupMember /\ a.remoteGroupId = NoGroup
retryArmed(a) == ~a.isGroupMember /\ a.remoteGroupId # NoGroup

\* initialize: isAdmin
isAdmin(d, rn) ==
  rn.storedAdmin \/ (rn.config.adminInboxId # NoAdmin /\ rn.config.adminInboxId = d)

\* The app process starts, no run or detached task of an earlier process
\* being cut short: module singletons and the store are fresh, the mount
\* effect of ChatScreen calls initialize.
Launch(d) ==
  /\ FreeRun(d) = Runs
  /\ approve[d] = NoGroup
  /\ app' = [app EXCEPT ![d] = AppDefaults]
  /\ curGroup' = [curGroup EXCEPT ![d] = NoGroup]
  /\ run' = [run EXCEPT ![d][1] = [RunIdle EXCEPT !.pc = "config"]]
  /\ UNCHANGED <<otherVars, directory, members, inbox, dmCount, storage, approve>>

\* The 5-second interval of the auto-retry effect fires.
Retry(d) ==
  /\ retryArmed(app[d])
  /\ FreeRun(d) # {}
  /\ run' = [run EXCEPT ![d][LowestFreeRun(d)] = [RunIdle EXCEPT !.pc = "config"]]
  /\ UNCHANGED <<otherVars, directory, members, inbox, dmCount, storage, app,
                 curGroup, approve>>

\* The 15-second heartbeat finds the stream dead and calls initialize.
Heartbeat(d) ==
  /\ app[d].isGroupMember
  /\ FreeRun(d) # {}
  /\ run' = [run EXCEPT ![d][LowestFreeRun(d)] = [RunIdle EXCEPT !.pc = "config"]]
  /\ UNCHANGED <<otherVars, directory, members, inbox, dmCount, storage, app,
                 curGroup, approve>>

\* initialize 108-109: fetchAppConfig resolves, setRemoteGroupId.
FetchConfig(d, r) ==
  /\ run[d][r].pc = "config"
  /\ run' = [run EXCEPT ![d][r].pc = "group", ![d][r].config = directory]
  /\ app' = [app EXCEPT ![d].remoteGroupId = directory.globalGroupId]
  /\ UNCHANGED <<otherVars, directory, members, inbox, dmCount, storage,
                 curGroup, approve>>

\* fetchAppConfig on a network error or a response that is not ok: it
\* returns EMPTY, and initialize goes on with it (setRemoteGroupId('')).
FetchConfigFails(d, r) ==
  /\ run[d][r].pc = "config"
  /\ run' = [run EXCEPT ![d][r].pc = "group", ![d][r].config = EMPTY]
  /\ app' = [app EXCEPT ![d].remoteGroupId = EMPTY.globalGroupId]
  /\ UNCHANGED <<otherVars, directory, members, inbox, dmCount, storage,
                 curGroup, approve>>

\* initialize 113-117: getOrCreateGlobalChat resolves, _group = group.
GetOrCreate(d, r) ==
  LET gid == run[d][r].config.globalGroupId IN
  /\ run[d][r].pc = "group"
  /\ IF gid # NoGroup
       THEN /\ run' = [run EXCEPT ![d][r].pc = "flag",
                                  ![d][r].group = IF d \in members[gid] THEN gid ELSE NoGroup,
                                  ![d][r].isNewAdmin = FALSE]
            /\ curGroup' = [curGroup EXCEPT ![d] = IF d \in members[gid] THEN gid ELSE NoGroup]
            /\ UNCHANGED members
       ELSE /\ FreeGroups # {}
            /\ members' = [members EXCEPT ![newGroupId] = {d}]
            /\ run' = [run EXCEPT ![d][r].pc = "flag",
                                  ![d][r].group = newGroupId,
                                  ![d][r].isNewAdmin = TRUE]
            /\ curGroup' = [curGroup EXCEPT ![d] = newGroupId]
  /\ UNCHANGED <<otherVars, directory, inbox, dmCount, storage, app, approve>>

\* initialize 120-139: the stored admin flag, the directory's admin id, the
\* group just created; then getAdminToken decides whether to publish.
AdminFlag(d, r) ==
  LET rn == run[d][r]
      stored == storage[d].AK_IS_ADMIN
      byConfig == rn.config.adminInboxId # NoAdmin /\ rn.config.adminInboxId = d
      admin == stored \/ byConfig \/ rn.isNewAdmin
  IN
  /\ rn.pc = "flag"
  /\ storage' = [storage EXCEPT ![d].AK_IS_ADMIN = admin]
  /\ app' = [app EXCEPT
       ![d].isGroupAdmin = IF admin THEN TRUE ELSE @,
       ![d].remoteGroupId = IF rn.isNewAdmin THEN rn.group ELSE @]
  /\ run' = [run EXCEPT
       ![d][r].storedAdmin = stored,
       ![d][r].pc = IF rn.isNewAdmin /\ storage[d].SK_TOKEN THEN "sha" ELSE "tail"]
  /\ UNCHANGED <<otherVars, directory, members, inbox, dmCount, curGroup, approve>>

\* publishAppConfig 112-123: the GET of the file returns its current sha.
PublishGet(d, r) ==
  /\ run[d][r].pc = "sha"
  /\ run' = [run EXCEPT ![d][r].pc = "put", ![d][r].sha = sha(directory)]
  /\ UNCHANGED <<otherVars, directory, members, inbox, dmCount, storage, app,
                 curGroup, approve>>

\* publishAppConfig 125-144: the PUT carries info.sha; the Contents API
\* rejects it when the file has changed since, and initialize catches the throw.
PublishPut(d, r) ==
  /\ run[d][r].pc = "put"
  /\ directory' = IF run[d][r].sha = sha(directory)
                    THEN [globalGroupId |-> run[d][r].group, adminInboxId |-> d]
                    ELSE directory
  /\ run' = [run EXCEPT ![d][r].pc = "tail"]
  /\ UNCHANGED <<otherVars, members, inbox, dmCount, storage, app, curGroup, approve>>

\* initialize 149-206: the token seed and the detached auto-approve task of
\* an admin, then setIsGroupMember; a member goes on to the history load.
AdminTail(d, r) ==
  LET rn == run[d][r]
      adm == isAdmin(d, rn) /\ rn.group # NoGroup
      ask == rn.config.adminInboxId # NoAdmin /\ rn.config.adminInboxId # d
  IN
  /\ rn.pc = "tail"
  /\ adm => approve[d] = NoGroup   \* one detached task of an install at a time
  /\ storage' = [storage EXCEPT ![d].SK_TOKEN = IF adm THEN TRUE ELSE @]
  /\ approve' = [approve EXCEPT ![d] = IF adm THEN rn.group ELSE @]
  /\ app' = [app EXCEPT ![d].isGroupMember = (rn.group # NoGroup)]
  /\ run' = [run EXCEPT ![d][r] =
       IF rn.group = NoGroup /\ ask THEN [rn EXCEPT !.pc = "check"] ELSE RunIdle]
  /\ UNCHANGED <<otherVars, directory, members, inbox, dmCount, curGroup>>

\* initialize 187-188: AsyncStorage.getItem(AK_JOIN_REQUEST_SENT).
JoinCheck(d, r) ==
  /\ run[d][r].pc = "check"
  /\ run' = [run EXCEPT ![d][r] =
       IF storage[d].AK_JOIN_REQUEST_SENT THEN RunIdle ELSE [@ EXCEPT !.pc = "dm"]]
  /\ UNCHANGED <<otherVars, directory, members, inbox, dmCount, storage, app,
                 curGroup, approve>>

\* initialize 191: sendJoinRequestDM resolves, the admin's inbox has the DM.
JoinSend(d, r) ==
  LET to == run[d][r].config.adminInboxId IN
  /\ run[d][r].pc = "dm"
  /\ inbox' = [inbox EXCEPT ![to] = @ \cup {d}]
  /\ dmCount' = [dmCount EXCEPT ![d] = IF @ < MaxDMs THEN @ + 1 ELSE @]
  /\ run' = [run EXCEPT ![d][r].pc = "mark"]
  /\ UNCHANGED <<otherVars, directory, members, storage, app, curGroup, approve>>

\* initialize 192: AsyncStorage.setItem(AK_JOIN_REQUEST_SENT, "1").
JoinMark(d, r) ==
  /\ run[d][r].pc = "mark"
  /\ storage' = [storage EXCEPT ![d].AK_JOIN_REQUEST_SENT = TRUE]
  /\ run' = [run EXCEPT ![d][r] = RunIdle]
  /\ UNCHANGED <<otherVars, directory, members, inbox, dmCount, app, curGroup, approve>>

\* initialize 162-178: the detached task adds every requester found in the
\* install's direct messages to the group of the run that started it.
AutoApprove(d) ==
  /\ approve[d] # NoGroup
  /\ members' = [members EXCEPT ![approve[d]] = @ \cup inbox[d]]
  /\ approve' = [approve EXCEPT ![d] = NoGroup]
  /\ UNCHANGED <<otherVars, directory, inbox, dmCount, storage, app, curGroup, run>>

\* publishGroupId, from the admin panel: save the token, publish _group's id.
PublishGroupId(d) ==
  /\ app[d].isGroupAdmin
  /\ curGroup[d] # NoGroup
  /\ directory # [globalGroupId |-> curGroup[d], adminInboxId |-> d]
  /\ storage' = [storage EXCEPT ![d].SK_TOKEN = TRUE]
  /\ directory' = [globalGroupId |-> curGroup[d], adminInboxId |-> d]
  /\ UNCHANGED <<otherVars, members, inbox, dmCount, app, curGroup, run, approve>>

RunStep(d, r) ==
  \/ FetchConfig(d, r) \/ GetOrCreate(d, r) \/ AdminFlag(d, r) \/ AdminTail(d, r)
  \/ JoinCheck(d, r) \/ JoinSend(d, r) \/ JoinMark(d, r)

InitMember ==
  /\ ProfileInit
  /\ messages = <<>>
  /\ histRaw = <<>>
  /\ histDone = FALSE
  /\ ChatIdle
  /\ MemIdle
  /\ CodecIdle

\* Installs from a cold directory; an install's initialize runs do not overlap.
ColdRetry(d) == Retry(d) /\ FreeRun(d) = Runs

NextMember ==
  \/ \E d \in Devices : Launch(d)
  \/ \E d \in Devices : ColdRetry(d)
  \/ \E d \in Devices, r \in Runs : FetchConfig(d, r)
  \/ \E d \in Devices, r \in Runs : GetOrCreate(d, r)
  \/ \E d \in Devices, r \in Runs : AdminFlag(d, r)
  \/ \E d \in Devices, r \in Runs : PublishGet(d, r)
  \/ \E d \in Devices, r \in Runs : PublishPut(d, r)
  \/ \E d \in Devices, r \in Runs : AdminTail(d, r)
  \/ \E d \in Devices, r \in Runs : JoinCheck(d, r)
  \/ \E d \in Devices, r \in Runs : JoinSend(d, r)
  \/ \E d \in Devices, r \in Runs : JoinMark(d, r)
  \/ \E d \in Devices : AutoApprove(d)
  \/ \E d \in Devices : PublishGroupId(d)

SpecMember == InitMember /\ [][NextMember]_vars

\* The scenario of two installs: A has initialized against the empty
\* directory, created group 1 and published it from the admin panel; B is
\* a fresh install.
InitJoin ==
  /\ ProfileInit
  /\ messages = <<>>
  /\ histRaw = <<>>
  /\ histDone = FALSE
  /\ ChatIdle
  /\ directory = [globalGroupId |-> 1, adminInboxId |-> "A"]
  /\ members = [g \in Groups |-> IF g = 1 THEN {"A"} ELSE {}]
  /\ inbox = [d \in Devices |-> {}]
  /\ dmCount = [d \in Devices |-> 0]
  /\ storage = [d \in Devices |->
       IF d = "A" THEN [StorageEmpty EXCEPT !.AK_IS_ADMIN = TRUE, !.SK_TOKEN = TRUE]
                  ELSE StorageEmpty]
  /\ app = [d \in Devices |->
       IF d = "A" THEN [isGroupMember |-> TRUE, isGroupAdmin |-> TRUE, remoteGroupId |-> 1]
                  ELSE AppDefaults]
  /\ curGroup = [d \in Devices |-> IF d = "A" THEN 1 ELSE NoGroup]
  /\ run = [d \in Devices |-> [r \in Runs |-> RunIdle]]
  /\ approve = [d \in Devices |-> NoGroup]
  /\ CodecIdle

\* An initialize of the install the directory names as admin, by a launch of
\* the app or by its heartbeat.
AdminInitialize ==
  \E d \in Devices : d = directory.adminInboxId /\ (Launch(d) \/ Heartbeat(d))

NextJoin ==
  \/ \E d \in Devices : Launch(d)
  \/ \E d \in Devices : Retry(d)
  \/ \E d \in Devices : Heartbeat(d)
  \/ \E d \in Devices, r \in Runs : FetchConfig(d, r)
  \/ \E d \in Devices, r \in Runs : GetOrCreate(d, r)
  \/ \E d \in Devices, r \in Runs : AdminFlag(d, r)
  \/ \E d \in Devices, r \in Runs : AdminTail(d, r)
  \/ \E d \in Devices, r \in Runs : JoinCheck(d, r)
  \/ \E d \in Devices, r \in Runs : JoinSend(d, r)
  \/ \E d \in Devices, r \in Runs : JoinMark(d, r)
  \/ \E d \in Devices : AutoApprove(d)

\* The two installs with a published directory whose reads can fail; an
\* install's initialize runs do not overlap.
NextOutage ==
  \/ \E d \in Devices : Launch(d)
  \/ \E d \in Devices, r \in Runs : FetchConfig(d, r)
  \/ \E d \in Devices, r \in Runs : FetchConfigFails(d, r)
  \/ \E d \in Devices, r \in Runs : GetOrCreate(d, r)
  \/ \E d \in Devices, r \in Runs : AdminFlag(d, r)
  \/ \E d \in Devices, r \in Runs : PublishGet(d, r)
  \/ \E d \in Devices, r \in Runs : PublishPut(d, r)
  \/ \E d \in Devices, r \in Runs : AdminTail(d, r)
  \/ \E d \in Devices, r \in Runs : JoinCheck(d, r)
  \/ \E d \in Devices, r \in Runs : JoinSend(d, r)
  \/ \E d \in Devices, r \in Runs : JoinMark(d, r)
  \/ \E d \in Devices : AutoApprove(d)

SpecOutage == InitJoin /\ [][NextOutage]_vars

\* Every started initialize run and detached task proceeds, the retry
\* interval keeps firing while it is armed, and the admin's install
\* initializes again and again.
FairJoin ==
  /\ \A d \in Devices, r \in Runs : WF_vars(RunStep(d, r))
  /\ \A d \in Devices : WF_vars(Retry(d))
  /\ \A d \in Devices : WF_vars(AutoApprove(d))
  /\ WF_vars(AdminInitialize)

SpecJoin == InitJoin /\ [][NextJoin]_vars /\ FairJoin

\* ------------------------------------------------------------------------
\* Specification of the wire format: a message is sent and decoded
\* ------------------------------------------------------------------------
InitCodec ==
  /\ ProfileInit
  /\ messages = <<>>
  /\ histRaw = <<>>
  /\ histDone = FALSE
  /\ ChatIdle
  /\ MemIdle
  /\ codecIn \in TextInputs \cup ReplyInputs
  /\ codecOut = None
  /\ codecDone = FALSE

\* send / reply packs the message, the transport carries the payload, the
\* receiver's decodeMessage decodes it.
SendAndDecode ==
  /\ ~codecDone
  /\ codecOut' = decodeContent(
       IF codecIn.kind = "text" THEN sendMessage(codecIn.body, codecIn.username)
       ELSE sendReply(codecIn.target, codecIn.body, codecIn.username))
  /\ codecDone' = TRUE
  /\ UNCHANGED <<profileCache, messages, histVars, chatVars, memVars, faultVars, codecIn,
                 uiVars, persistVars>>

NextCodec == SendAndDecode

SpecCodec == InitCodec /\ [][NextCodec]_vars

\* ------------------------------------------------------------------------
\* Claims
\* ------------------------------------------------------------------------

EntriesOfSend(k) ==
  {i \in 1..Len(messages) :
     \/ messages[i].id = OptId(k)
     \/ sendTid[k] # 0 /\ messages[i].id = Tid(sendTid[k])}

SendResolved(k) == k < sendCount \/ (k = sendCount /\ sendPc = "idle")

\* C1: for a message the local user sent successfully, under every
\* interleaving of the send completion, the live delivery of its echo and
\* syncMessages runs, the list holds exactly one entry for that send (the
\* optimistic entry or the entry with the send's transport id), and once the
\* send has completed that entry's status is 'sent'.
C1_OneEntryPerSend ==
  \A k \in 1..sendCount :
    sendTid[k] # 0 =>
      /\ Cardinality(EntriesOfSend(k)) = 1
      /\ SendResolved(k) => \A i \in EntriesOfSend(k) : messages[i].status = "sent"

\* C2: at most one stream handler is subscribed at any time, for every
\* interleaving of initialize runs.
C2_AtMostOneSubscription == Cardinality(subs) <= 1

TransportIdsUnique(msgs) ==
  \A i, j \in 1..Len(msgs) :
    (i # j /\ ~IsOpt(msgs[i].id)) => msgs[i].id # msgs[j].id

\* C3: no two entries of the message list share a transport id, under every
\* interleaving of history load, live delivery and syncMessages; and handing
\* the list a message whose transport id is already present (by the stream
\* handler, mergeMessage or upgradeOwnMessage) leaves the list unchanged.
C3_NoDuplicateTransportIds ==
  /\ TransportIdsUnique(messages)
  /\ \A n \in 1..Len(log) :
       (Decodable(log[n]) /\ HasId(messages, log[n].id)) =>
         LET msg == enrichWithNft(decodeMessage(log[n]), profileCache)
         IN /\ mergeMessage(messages, msg) = messages
            /\ upgradeOwnMessage(messages, msg) = messages
            /\ handleLive(messages, log[n], profileCache) = messages

\* A handler is about to be handed a message from another sender that
\* syncMessages or the history load has already put into the list.
C3_Witness ==
  \E h \in subs :
    /\ pos[h] <= Len(log)
    /\ log[pos[h]].sender # Me
    /\ HasId(messages, log[pos[h]].id)
    /\ Len(messages) >= 2

\* C4: cacheProfile is monotonic per field: once a non-empty value is stored
\* for a sender and a field, no later cacheProfile call whose partial has that
\* field empty, null, undefined or absent changes the stored value. The model
\* has one non-empty value, so a call that carries the field non-empty writes
\* the value already stored, and a stored non-empty value can only change by
\* a call that carries the field empty, null, undefined or absent.
C4_CacheProfileMonotonic ==
  [][\A i \in ProfileIds, f \in ProfileFields :
       NonEmpty(profileCache[i][f]) => profileCache'[i][f] = profileCache[i][f]]_vars

ReactionsOf(msg) == DOMAIN msg.reactions \cap REACTIONS

\* C5: for every message and every configured emoji, count equals the number
\* of distinct ids in reactors and count >= 0, after any sequence of
\* applyReaction calls on freshly decoded messages.
C5_CountMatchesReactors ==
  \A i \in 1..Len(messages) : \A e \in ReactionsOf(messages[i]) :
    LET r == messages[i].reactions[e]
    IN r.count = Cardinality(SeqToSet(r.reactors)) /\ r.count >= 0

\* Two reactors have been counted on one message.
C5_Witness ==
  \E i \in 1..Len(messages) : \E e \in ReactionsOf(messages[i]) :
    messages[i].reactions[e].count = 2

SameReactionState(a, b) ==
  /\ a.count = b.count
  /\ a.reactedByMe = b.reactedByMe
  /\ SeqToSet(a.reactors) = SeqToSet(b.reactors)

SameMessage(a, b) ==
  /\ a.id = b.id /\ a.sender = b.sender /\ a.content = b.content
  /\ a.status = b.status /\ a.nft = b.nft
  /\ DOMAIN a.reactions = DOMAIN b.reactions
  /\ \A e \in DOMAIN a.reactions : SameReactionState(a.reactions[e], b.reactions[e])

\* C6: applying the same reaction (sender, target id, emoji) twice returns the
\* target message's count, reactedByMe and reactor set to their value before
\* the first application and leaves every other message and emoji unchanged.
C6_ToggleTwiceRestores ==
  \A raw \in ReactInputs :
    ~applyReactionThrows(messages, raw) =>
      LET twice == applyReaction(applyReaction(messages, raw, Me), raw, Me)
      IN /\ Len(twice) = Len(messages)
         /\ \A i \in 1..Len(messages) : SameMessage(twice[i], messages[i])

\* The local user and another sender have reacted to the same message, and a
\* single application changes the state that the second one restores.
C6_Witness ==
  /\ \E i \in 1..Len(messages) : \E e \in ReactionsOf(messages[i]) :
       /\ messages[i].reactions[e].reactedByMe
       /\ SeqToSet(messages[i].reactions[e].reactors) = {Me, "u1"}
  /\ \E raw \in ReactInputs : applyReaction(messages, raw, Me) # messages

ReactionStateById(msgs, id) ==
  {[e |-> e, count |-> msgs[i].reactions[e].count,
    reactedByMe |-> msgs[i].reactions[e].reactedByMe,
    reactors |-> SeqToSet(msgs[i].reactions[e].reactors)] :
     e \in REACTIONS, i \in {j \in 1..Len(msgs) : msgs[j].id = id}}

IdsOf(msgs) == {msgs[i].id : i \in 1..Len(msgs)}

\* C7: the history load (decode all, then the REACT: second pass) yields the
\* same count, reactedByMe and reactor set per message and emoji for every
\* permutation of the same raw history.
C7_HistoryOrderIndependent ==
  histDone =>
    \A p \in Reorderings(histRaw) :
      LET other == historyMessages(p, seedProfiles([i \in ProfileIds |-> NoProfile], p))
      IN /\ IdsOf(other) = IdsOf(messages)
         /\ \A id \in IdsOf(messages) :
              ReactionStateById(other, id) = ReactionStateById(messages, id)

\* A loaded history in which a reaction came before its target in the raw
\* order and was counted.
C7_Witness ==
  /\ histDone
  /\ \E i, j \in 1..Len(histRaw) :
       /\ i < j
       /\ histRaw[i].tag = "REACT" /\ histRaw[j].tag = "TEXT"
       /\ histRaw[i].target = histRaw[j].id
  /\ \E k \in 1..Len(messages) : messages[k].reactions["banana"].count = 2

\* C8: in the two-install scenario, an install that has sent its join
\* request to the directory's admin and is not a member (RequestPending)
\* eventually becomes a member, under fair scheduling of the admin's
\* initialize and of the requester's retry.
RequestPending(d) ==
  /\ directory.adminInboxId \in Devices
  /\ d \in inbox[directory.adminInboxId]
  /\ ~app[d].isGroupMember

C9_AtMostOneJoinRequest == \A d \in Devices : dmCount[d] <= 1

\* C10: an initialize run that read a directory record naming a group and
\* another install as admin ends with the install not in Admin state.
C10_LoserNotAdmin ==
  [][\A d \in Devices, r \in Runs :
       (/\ run[d][r].pc # "idle"
        /\ run'[d][r].pc = "idle"
        /\ run[d][r].config.globalGroupId # NoGroup
        /\ run[d][r].config.adminInboxId # d)
       => ~app'[d].isGroupAdmin]_vars

\* C11: an initialize run that ends with the install in Admin state has
\* read a directory record whose admin id is the install's own id, or has
\* just created the group; the stored admin flag alone does not suffice.
C11_AdminOnlyFromDirectory ==
  [][\A d \in Devices, r \in Runs :
       (/\ run[d][r].pc # "idle"
        /\ run'[d][r].pc = "idle"
        /\ app'[d].isGroupAdmin)
       => (run[d][r].config.adminInboxId = d \/ run[d][r].isNewAdmin)]_vars

OwnEntries(msgs) == {i \in 1..Len(msgs) : msgs[i].sender = Me}

\* The effect of syncMessages on the list for one own message of the log:
\* the list unchanged, or one optimistic entry replaced at its position.
ReplacesInPlaceOrNothing(msgs, res, id) ==
  /\ Len(res) = Len(msgs)
  /\ \/ res = msgs
     \/ \E i \in 1..Len(msgs) :
          /\ IsOpt(msgs[i].id)
          /\ res[i].id = id
          /\ \A j \in 1..Len(msgs) : j # i => res[j] = msgs[j]

SendFailed(k) ==
  /\ k \in 1..sendCount
  /\ sendTid[k] = 0
  /\ (k < sendCount \/ sendPc = "idle")

\* C13: after the transport send of a local message has failed, the list
\* holds exactly one entry for it, the optimistic one, with status 'failed',
\* whatever live deliveries, syncMessages runs and reconnects follow.
C13_FailedEntryRetained ==
  \A k \in 1..sendCount :
    SendFailed(k) =>
      /\ Cardinality({i \in 1..Len(messages) : messages[i].id = OptId(k)}) = 1
      /\ \A i \in 1..Len(messages) :
           messages[i].id = OptId(k) => messages[i].status = "failed"

C15_UnknownKindAddsNoEntry ==
  \A n \in 1..Len(log) :
    log[n].tag = "FUTURE_KIND" => ~HasId(messages, log[n].id)

\* The fields the receiver is to see for a sent message.
Encoded(in) ==
  Some([senderUsername |-> orUndefinedStr(in.username),
        content |-> in.body,
        replyTo |-> IF in.kind = "text" THEN None
                    ELSE Some([id |-> in.target.id,
                               senderAddress |-> in.target.senderAddress,
                               senderUsername |-> in.target.senderUsername,
                               content |-> in.target.content])])

\* C16: decodeMessage applied to the payload sendMessage / sendReply built
\* yields the display name, body and replyTo that were encoded, for every
\* text message and every current-format reply.
C16_RoundTrip == codecDone => codecOut = Encoded(codecIn)

AbsentTarget(msgs, raw) == raw.tag = "REACT" /\ ~HasId(msgs, raw.target)

C18_OnlySendingIsUpgraded ==
  [][\A i \in 1..Len(messages) :
       (/\ Len(messages') >= Len(messages)
        /\ IsOpt(messages[i].id)
        /\ ~IsOpt(messages'[i].id))
       => /\ messages[i].status = "sending"
          /\ messages'[i].sender = messages[i].sender
          /\ messages'[i].content = messages[i].content]_vars

\* The confirmed messages the store functions can be handed: the decoded
\* entries of the log, as decoded and as enriched from the profile cache.
Confirmed ==
  {decodeMessage(log[n]) : n \in {k \in 1..Len(log) : Decodable(log[k])}}
  \cup {enrichWithNft(decodeMessage(log[n]), profileCache) :
          n \in {k \in 1..Len(log) : Decodable(log[k])}}

Upgrades(msgs, m) == ~HasId(msgs, m.id) /\ findOptIdx(msgs, m) # 0

InPlaceUpgrade(msgs, res, m) ==
  LET optIdx == findOptIdx(msgs, m)
  IN /\ Len(res) = Len(msgs)
     /\ \A j \in 1..Len(msgs) : j # optIdx => res[j] = msgs[j]
     /\ res[optIdx].id = m.id
     /\ res[optIdx].status = "sent"
     /\ res[optIdx].sender = m.sender
     /\ res[optIdx].content = m.content
     /\ msgs[optIdx].nft # NoNft => res[optIdx].nft = msgs[optIdx].nft

\* C19: when mergeMessage or upgradeOwnMessage upgrades an optimistic entry,
\* the list keeps its length, the confirmed message takes the position of the
\* optimistic entry, every other entry is unchanged, the new entry has the
\* transport id and status 'sent', and it keeps the avatar of the optimistic
\* entry when that entry had one.
C19_UpgradeInPlace ==
  \A m \in Confirmed :
    Upgrades(messages, m) =>
      /\ InPlaceUpgrade(messages, mergeMessage(messages, m), m)
      /\ InPlaceUpgrade(messages, upgradeOwnMessage(messages, m), m)

\* An earlier send has been upgraded at the head of the list, and the echo of
\* a later send, decoded without an avatar, matches the optimistic entry
\* behind it.
C19_Witness ==
  /\ Len(messages) >= 2
  /\ ~IsOpt(messages[1].id) /\ messages[1].sender = Me /\ messages[1].nft = OwnNft
  /\ \E m \in Confirmed :
       /\ Upgrades(messages, m)
       /\ findOptIdx(messages, m) = 2
       /\ m.nft = NoNft
       /\ messages[2].nft = OwnNft

HoldsOptimistic(msgs) ==
  \E i \in 1..Len(msgs) :
    IsOpt(msgs[i].id) /\ msgs[i].status \in {"sending", "failed"}

\* C20: whenever initialize replaces the message list with the decoded
\* history (setMessages), the list it replaces holds no optimistic entry in
\* status 'sending' or 'failed', under every interleaving of handleSend with
\* the initialize calls of the mount, of send and of the heartbeat.
C20_LoadBeforeOptimistic ==
  [][(\E r \in 1..MaxInits : inits[r].pc = "load" /\ inits'[r].pc = "subscribe")
       => ~HoldsOptimistic(messages)]_vars

\* C21: while a run of initialize is between its history fetch and its
\* setMessages, no live-stream handler is subscribed, also when the run is a
\* reconnect or a retry.
C21_NoSubscriptionDuringBackfill ==
  \A r \in 1..MaxInits : inits[r].pc = "load" => subs = {}

SyncsInFlight == {c \in 1..MaxSyncs : syncSnap[c] >= 0}

\* The list after one syncMessages call that fetched the log at length a, and
\* after two calls that fetched it at lengths a and b.
SyncOnce(a) == syncApply(messages, fetchMessages(log, a, SYNC_LIMIT), profileCache)
SyncTwice(a, b) == syncApply(SyncOnce(a), fetchMessages(log, b, SYNC_LIMIT), profileCache)

\* C22: overlapping syncMessages calls are serialized or the second is
\* dropped (at most one call is between its guard and its merge), and the
\* list two calls produce is the list a single call produces.
C22_SyncSerialized ==
  /\ Cardinality(SyncsInFlight) <= 1
  /\ \A a, b \in 0..Len(log) : SyncTwice(a, b) = SyncOnce(IF a > b THEN a ELSE b)

\* The log entries of a window fetched at log length n that are chat messages
\* of another sender and whose transport id is not in the list.
NewFromOthers(msgs, n) ==
  {k \in (IF n > SYNC_LIMIT THEN n - SYNC_LIMIT + 1 ELSE 1)..n :
     /\ log[k].tag \notin SystemTags
     /\ log[k].sender # Me
     /\ \A i \in 1..Len(msgs) : msgs[i].id # log[k].id}

PositionsOf(msgs, id) == {i \in 1..Len(msgs) : msgs[i].id = id}

\* C23: a syncMessages run that succeeds leaves every chat message of another
\* sender of its window that was not in the list in the list exactly once,
\* behind the entries the list had, oldest first within the batch.
C23_SyncAppendsOthers ==
  [][\A c \in 1..MaxSyncs :
       (syncSnap[c] >= 0 /\ syncSnap'[c] = -1 /\ warns' = warns) =>
         LET new == NewFromOthers(messages, syncSnap[c])
         IN /\ Len(messages') = Len(messages) + Cardinality(new)
            /\ \A k \in new :
                 /\ Cardinality(PositionsOf(messages', log[k].id)) = 1
                 /\ \A p \in PositionsOf(messages', log[k].id) : p > Len(messages)
            /\ \A k, l \in new : k < l =>
                 \A p \in PositionsOf(messages', log[k].id),
                    q \in PositionsOf(messages', log[l].id) : p < q]_vars

\* syncMessages has appended two messages of another sender, which the stream
\* handler has not been handed, behind an entry the list already had.
C23_Witness ==
  \E k, l \in 1..Len(log) :
    /\ k < l
    /\ log[k].sender # Me /\ log[l].sender # Me
    /\ \A h \in subs : pos[h] <= k
    /\ subs # {}
    /\ \E p, q \in 1..Len(messages) :
         1 < p /\ p < q /\ messages[p].id = log[k].id /\ messages[q].id = log[l].id

\* C24: an initialize run that read a directory without a group id ends with
\* the install in Admin state, a member of the group it created, and the
\* directory holding that group's id and the install's id (so that a
\* repeated initialize finds the group instead of creating another one).
C24_CreatorPublishes ==
  [][\A d \in Devices, r \in Runs :
       (/\ run[d][r].pc # "idle"
        /\ run'[d][r].pc = "idle"
        /\ run[d][r].config.globalGroupId = NoGroup)
       => /\ app'[d].isGroupAdmin
          /\ run[d][r].group # NoGroup
          /\ directory' = [globalGroupId |-> run[d][r].group, adminInboxId |-> d]]_vars

\* C25: for every message and every configured emoji, after the history load
\* and any live reactions, reactedByMe is true exactly when the local user's
\* id is in reactors; and a reaction of another sender leaves reactedByMe of
\* every message and emoji as it was.
C25_ReactedByMeIffReactor ==
  /\ \A i \in 1..Len(messages) : \A e \in ReactionsOf(messages[i]) :
       messages[i].reactions[e].reactedByMe
         <=> Me \in SeqToSet(messages[i].reactions[e].reactors)
  /\ \A raw \in ReactInputs :
       (raw.sender # Me /\ ~applyReactionThrows(messages, raw)) =>
         LET res == applyReaction(messages, raw, Me)
         IN \A i \in 1..Len(messages) : \A e \in ReactionsOf(messages[i]) :
              res[i].reactions[e].reactedByMe = messages[i].reactions[e].reactedByMe

\* The history held no reaction of the local user; on the live stream the
\* local user and another sender have reacted to the same loaded message.
C25_Witness ==
  /\ histDone
  /\ \A n \in 1..Len(histRaw) : ~(histRaw[n].tag = "REACT" /\ histRaw[n].sender = Me)
  /\ \E i \in 1..Len(messages) : \E e \in ReactionsOf(messages[i]) :
       /\ messages[i].reactions[e].reactedByMe
       /\ {Me, "u2"} \subseteq SeqToSet(messages[i].reactions[e].reactors)

\* C26: a step of an initialize run whose read of the directory failed while
\* the directory names a group creates no group, does not persist the admin
\* flag, does not put the install in Admin state and does not change the
\* directory record.
C26_FailedReadIsHarmless ==
  [][\A d \in Devices, r \in Runs :
       (/\ run[d][r].pc \notin {"idle", "config"}
        /\ run[d][r].config.globalGroupId = NoGroup
        /\ directory.globalGroupId # NoGroup
        /\ run'[d][r] # run[d][r])
       => /\ members' = members
          /\ storage'[d].AK_IS_ADMIN = storage[d].AK_IS_ADMIN
          /\ app'[d].isGroupAdmin = app[d].isGroupAdmin
          /\ directory' = directory]_vars

NoInitializeInFlight == \A r \in 1..MaxInits : inits[r].pc \in {"none", "done"}

\* C27: after disconnect() has run, once every initialize run that was in
\* flight has finished, no stream handler is subscribed.
C27_NoSubscriptionAfterDisconnect ==
  (~mounted /\ NoInitializeInFlight) => subs = {}

\* C28: loadProfileCache never replaces a field value that cacheProfile
\* recorded in memory since the last persist (the persist timer is pending)
\* with the value of the persisted object.
C28_ReloadKeepsUnpersisted ==
  persistTimer =>
    \A i \in ProfileIds, f \in ProfileFields :
      NonEmpty(profileCache[i][f]) =>
        loadProfileCache(profileCache, persisted)[i][f] = profileCache[i][f]

\* C29: when no initialize run is in flight, whether the runs ended by
\* success or by an error of the history fetch, isLoading and
\* isLoadingHistory are both false.
C29_LoadingFlagsCleared ==
  NoInitializeInFlight => (~isLoading /\ ~isLoadingHistory)

\* The stream handler has been handed entry n of the log.
Delivered(n) == \E h \in subs : pos[h] > n

\* C30: once the entry of a message the local user sent carries its transport
\* id, its reactors include the sender of every reaction for that id that the
\* live stream has delivered, whether it was delivered before or after the
\* optimistic entry was upgraded.
C30_ReactionsSurviveUpgrade ==
  \A i \in 1..Len(messages) :
    (messages[i].sender = Me /\ ~IsOpt(messages[i].id)) =>
      \A n \in 1..Len(log) :
        (log[n].tag = "REACT" /\ log[n].target = messages[i].id /\ Delivered(n)) =>
          /\ log[n].emoji \in DOMAIN messages[i].reactions
          /\ log[n].sender \in SeqToSet(messages[i].reactions[log[n].emoji].reactors)
          /\ messages[i].reactions[log[n].emoji].count >= 1

====
